---- MODULE Spec2Model ----
(***************************************************************************)
(* Resizer (src/utils/Resizer.js): drag-to-resize and collapse/expand of a *)
(* panel.  One resizable element, its resizer handle, and the drag         *)
(* session (the closure created by the handle's mousedown handler).        *)
(* Every handler of the module is one action; `trace` is what the handler  *)
(* that ran last did to the outside world, in order: DOM mutations of the  *)
(* element, EditorManager.resizeEditor() calls and triggered events.       *)
(***************************************************************************)
EXTENDS Integers, Sequences, FiniteSets, TLC

VARIABLES
    tagged,       \* the element has the classes vert-resizable and top-resizer
    hasContent,   \* the element has a descendant of class resizable-content
    overlays,     \* the number of .resizing-container elements in the body
    attached,     \* $element.data("show"/"hide") are set (makeResizable ran)
    minSize,      \* makeResizable's minSize, after `minSize || 0`
    collapsable,  \* makeResizable's collapsable, after `collapsable || false`
    visible,      \* $element.is(":visible")
    size,         \* elementSizeFunction.apply($element): width or height
    resizer,      \* $resizer: its parent and its CSS left/top
    sess,         \* the closure of the handle's latest mousedown
    stale,        \* doRedraw callbacks still queued for earlier closures
    trace,        \* effects of the handler that ran last, in order
    lastOp        \* the handler that ran last, and its event's coordinate

vars == <<tagged, hasContent, overlays, attached, minSize, collapsable, visible, size, resizer, sess, stale, trace, lastOp>>

----------------------------------------------------------------------------
(* Program constants and bounds *)

DEFAULT_MIN_SIZE == 100

\* the literal 10 of doRedraw's `newSize < 10` and `newSize > 10`
CollapseThreshold == 10

\* frame callbacks of earlier closures that are still queued at once
MaxStale == 1

\* pointer coordinates e[directionProperty] are 0, 5, .., 5 * MaxCoord
MaxCoord == 3

\* a drag takes the element at most this far above its minimum size
MaxExtra == 20

\* $element.offset()[resizerCSSPosition] of the shown element
PanelOffset == 40

\* the summed outerWidth/outerHeight of the element's children that are
\* neither a resizer nor the content
DecorationSize == 5

\* e[directionProperty] of a mousemove on the overlay
Coords == {5 * k : k \in 0..MaxCoord}

\* e[directionProperty] of a mousedown on the handle
HandleCoords == {5 * k : k \in (MaxCoord - 1)..MaxCoord}

\* the size of an element that another module makes resizable
InitSizes == {15}

\* the size the stylesheet gives a panel tagged for autodiscovery
PanelSizes == {DEFAULT_MIN_SIZE}

Max(a, b) == IF a >= b THEN a ELSE b

----------------------------------------------------------------------------
(* The world a handler acts on: the element, the resizer and the trace *)

World ==
    [visible |-> visible, size |-> size,
     rparent |-> resizer.parent, rcss |-> resizer.css, trace |-> <<>>]

Emit(w, e) == [w EXCEPT !.trace = Append(@, e)]

\* EditorManager.resizeEditor()
resizeEditor(w) == Emit(w, <<"resizeEditor">>)

\* $element.trigger(name, [payload])
trigger(w, name, payload) == Emit(w, <<name, payload>>)

\* elementSizeFunction.apply($element, [n])
setSize(w, n) == Emit([w EXCEPT !.size = n], <<"setSize", n>>)

\* contentSizeFunction.apply($resizableElement, [n]); $resizableElement is a
\* jQuery object even when nothing matched, and then the call sets nothing.
\* The content's size is written here and read nowhere: the trace holds it.
setContentSize(w, n) ==
    IF hasContent THEN Emit(w, <<"setContentSize", n>>) ELSE w

\* $element.offset()[resizerCSSPosition]; a hidden element has no box, jQuery gives 0
elementOffset(w) == IF w.visible THEN PanelOffset ELSE 0

\* the closure stored as $element.data("show")
showFunc(w) ==
    LET w1 == Emit([w EXCEPT !.visible = TRUE], <<"show">>)
        w2 == IF collapsable
              THEN [w1 EXCEPT !.rparent = "element", !.rcss = <<>>]
              ELSE w1
    IN  Emit(resizeEditor(w2), <<"panelExpanded">>)

\* the closure stored as $element.data("hide")
hideFunc(w) ==
    LET off == elementOffset(w)
        elementSize == w.size
        w1 == Emit([w EXCEPT !.visible = FALSE], <<"hide">>)
        w2 == IF collapsable
              THEN [w1 EXCEPT !.rparent = "before", !.rcss = <<off + elementSize>>]
              ELSE w1
    IN  Emit(resizeEditor(w2), <<"panelCollapsed">>)

show_NoGuard(w) == showFunc(w)

\* exports.show
show(w) == IF attached THEN showFunc(w) ELSE w

\* exports.hide
hide(w) == IF attached THEN hideFunc(w) ELSE w

toggle_Inverted(w) == IF w.visible THEN show(w) ELSE hide(w)

\* exports.toggle
toggle(w) == IF w.visible THEN hide(w) ELSE show(w)

\* `minSize || 0` on an optional argument: <<>> is undefined, <<n>> is n
OrZero(arg) == IF arg = <<>> THEN 0 ELSE arg[1]

\* `collapsable || false` on an optional argument
OrFalse(arg) == IF arg = <<>> THEN FALSE ELSE arg[1]

----------------------------------------------------------------------------
(* The drag session *)

\* no closure: nothing of it is left in the DOM or in the frame queue
NoSession ==
    [startPosition |-> 0, startSize |-> 0, newSize |-> 0,
     doResize |-> FALSE, isMouseDown |-> FALSE,
     overlay |-> FALSE, mouseupBound |-> FALSE,
     framePending |-> FALSE, timerPending |-> FALSE,
     baseSize |-> 0,
     ends |-> 0, s0 |-> 0, z0 |-> 0, enlarging |-> FALSE, dirty |-> FALSE]

\* once the overlay is gone only doRedraw can still run, and it reads
\* isMouseDown alone: the other closure variables are dead and dropped
Collect(S) ==
    IF S.overlay \/ S.timerPending THEN S
    ELSE [NoSession EXCEPT !.framePending = S.framePending,
                           !.isMouseDown = S.isMouseDown]

ComputeNewSize_NoClamp(startSize, startPosition, c, m) ==
    startSize + (startPosition - c)

ComputeNewSize_SignFlipped(startSize, startPosition, c, m) ==
    Max(startSize + (c - startPosition), m)

\* Math.max(startSize + (startPosition - e[directionProperty]), minSize)
ComputeNewSize(startSize, startPosition, c, m) ==
    Max(startSize + (startPosition - c), m)

Count(t, name) == Cardinality({i \in 1..Len(t) : t[i][1] = name})

Commit(w, op) ==
    /\ visible' = w.visible
    /\ size' = w.size
    /\ resizer' = [parent |-> w.rparent, css |-> w.rcss]
    /\ trace' = w.trace
    /\ lastOp' = op

----------------------------------------------------------------------------
Init ==
    /\ tagged \in BOOLEAN
    /\ attached = FALSE
    /\ minSize = 0
    /\ collapsable = FALSE
    /\ visible \in BOOLEAN
    /\ size \in (IF tagged THEN PanelSizes ELSE InitSizes)
    /\ hasContent \in BOOLEAN
    /\ overlays = 0
    /\ resizer = [parent |-> "none", css |-> <<>>]
    /\ sess = NoSession
    /\ stale = 0
    /\ trace = <<>>
    /\ lastOp = [op |-> "init", c |-> 0]

Op(name, c) == [op |-> name, c |-> c]

\* the session's panelResizeEnd notifications so far
Observe(S, t) == [S EXCEPT !.ends = @ + Count(t, "panelResizeEnd")]

\* makeResizable(element, direction, position, minSize, collapsable)
\* what it leaves behind: the defaulted arguments, the data and the handle
makeResizable(mArg, cArg) ==
    [attached |-> TRUE, minSize |-> OrZero(mArg), collapsable |-> OrFalse(cArg),
     resizer |-> [parent |-> "element", css |-> <<>>]]

\* another module calls exports.makeResizable on an element that is not
\* tagged for autodiscovery, once
MakeResizable ==
    \E mArg \in {<<>>, <<0>>}, cArg \in {<<>>, <<TRUE>>} :
        /\ ~tagged
        /\ ~attached
        /\ LET r == makeResizable(mArg, cArg)
           IN  /\ attached' = r.attached
               /\ minSize' = r.minSize
               /\ collapsable' = r.collapsable
               /\ resizer' = r.resizer
        /\ trace' = <<>>
        /\ lastOp' = Op("makeResizable", 0)
        /\ UNCHANGED <<tagged, hasContent, overlays, visible, size, sess, stale>>

\* the AppInit.htmlReady callback finds the element tagged vert-resizable top-resizer
HtmlReady ==
    \E hasCollapsable \in BOOLEAN :
        /\ tagged
        /\ ~attached
        /\ LET r == makeResizable(<<DEFAULT_MIN_SIZE>>, <<hasCollapsable>>)
           IN  /\ attached' = r.attached
               /\ minSize' = r.minSize
               /\ collapsable' = r.collapsable
               /\ resizer' = r.resizer
        /\ trace' = <<>>
        /\ lastOp' = Op("htmlReady", 0)
        /\ UNCHANGED <<tagged, hasContent, overlays, visible, size, sess, stale>>

\* exports.show(element), called by another module
Show ==
    /\ Commit(show(World), Op("show", 0))
    /\ UNCHANGED <<tagged, hasContent, overlays, attached, minSize, collapsable, sess, stale>>

\* exports.hide(element), called by another module
Hide ==
    /\ Commit(hide(World), Op("hide", 0))
    /\ UNCHANGED <<tagged, hasContent, overlays, attached, minSize, collapsable, sess, stale>>

\* exports.toggle(element), called by another module
Toggle ==
    /\ Commit(toggle(World), Op("toggle", 0))
    /\ UNCHANGED <<tagged, hasContent, overlays, attached, minSize, collapsable, sess, stale>>

----------------------------------------------------------------------------
(* The handle's mousedown handler and the handlers it installs *)

\* the overlay covers the viewport: the handle gets a mousedown only when no
\* overlay is in the document and the handle itself is displayed
HandleReachable ==
    /\ attached
    /\ resizer.parent = "element" => visible
    /\ overlays = 0

NewSession_IgnoreHidden(c) ==
    [startPosition |-> c, startSize |-> size, newSize |-> size,
     doResize |-> FALSE, isMouseDown |-> TRUE,
     overlay |-> TRUE, mouseupBound |-> TRUE,
     framePending |-> TRUE, timerPending |-> FALSE,
     baseSize |-> DecorationSize,
     ends |-> 0, s0 |-> c, z0 |-> IF visible THEN size ELSE 0,
     enlarging |-> FALSE, dirty |-> FALSE]

\* the closure variables after the mousedown handler has run; besides them
\* ends, s0, z0, enlarging and dirty record the session's history: its
\* panelResizeEnd count, the coordinate and size at the mousedown, whether
\* the last move was more than the threshold toward enlarging, and whether
\* a move has come since the last frame that ran doRedraw's resize branch
NewSession(c) ==
    LET startSize == IF visible THEN size ELSE 0
    IN  [startPosition |-> c, startSize |-> startSize, newSize |-> startSize,
         doResize |-> FALSE, isMouseDown |-> TRUE,
         overlay |-> TRUE, mouseupBound |-> TRUE,
         framePending |-> TRUE, timerPending |-> FALSE,
         baseSize |-> DecorationSize,
         ends |-> 0, s0 |-> c, z0 |-> IF visible THEN size ELSE 0,
         enlarging |-> FALSE, dirty |-> FALSE]

\* $resizer.on("mousedown", ...)
HandleMouseDown ==
    \E c \in HandleCoords :
        /\ HandleReachable
        /\ stale + (IF sess.framePending THEN 1 ELSE 0) <= MaxStale
        /\ stale' = stale + (IF sess.framePending THEN 1 ELSE 0)
        /\ sess' = NewSession(c)
        /\ overlays' = overlays + 1
        /\ Commit(trigger(World, "panelResizeStart", size), Op("handleMouseDown", c))
        /\ UNCHANGED <<tagged, hasContent, attached, minSize, collapsable>>

RedrawBody_HideWhenSmall(S, w) ==
    LET w1 == IF S.newSize < CollapseThreshold
              THEN hide(setContentSize(setSize(w, S.newSize),
                                       S.newSize - S.baseSize))
              ELSE IF w.visible
                   THEN setContentSize(setSize(w, S.newSize),
                                       S.newSize - S.baseSize)
                   ELSE IF S.newSize > CollapseThreshold
                        THEN LET a == toggle(setSize(w, S.newSize))
                             IN  trigger(a, "panelResizeStart", a.size)
                        ELSE w
    IN  resizeEditor(w1)

RedrawBody_CollapseAtMin(S, w) ==
    LET w1 == IF w.visible
              THEN LET a == setContentSize(setSize(w, S.newSize),
                                           S.newSize - S.baseSize)
                   IN  IF S.newSize <= minSize THEN toggle(a) ELSE a
              ELSE IF S.newSize > CollapseThreshold
                   THEN LET a == toggle(setSize(w, S.newSize))
                        IN  trigger(a, "panelResizeStart", a.size)
                   ELSE w
    IN  resizeEditor(w1)

RedrawBody_NoRelayout(S, w) ==
    IF w.visible
    THEN LET a == setContentSize(setSize(w, S.newSize), S.newSize - S.baseSize)
         IN  IF S.newSize < CollapseThreshold THEN toggle(a) ELSE a
    ELSE IF S.newSize > CollapseThreshold
         THEN LET a == toggle(setSize(w, S.newSize))
              IN  trigger(a, "panelResizeStart", a.size)
         ELSE w

\* the body of doRedraw once isMouseDown and doResize hold
RedrawBody(S, w) ==
    LET w1 == IF w.visible
              THEN LET a == setContentSize(setSize(w, S.newSize),
                                           S.newSize - S.baseSize)
                   IN  IF S.newSize < CollapseThreshold THEN toggle(a) ELSE a
              ELSE IF S.newSize > CollapseThreshold
                   THEN LET a == toggle(setSize(w, S.newSize))
                        IN  trigger(a, "panelResizeStart", a.size)
                   ELSE w
    IN  resizeEditor(w1)

doRedraw_IgnoresMouseDown ==
    /\ sess.framePending
    /\ LET S == sess
           w == IF S.doResize THEN RedrawBody(S, World) ELSE World
           S1 == [S EXCEPT !.dirty = IF S.doResize THEN FALSE ELSE @]
       IN  /\ sess' = Collect(Observe(S1, w.trace))
           /\ Commit(w, Op("doRedraw", 0))
    /\ UNCHANGED <<tagged, hasContent, overlays, attached, minSize, collapsable, stale>>

\* one frame callback of window.webkitRequestAnimationFrame(doRedraw)
doRedraw ==
    /\ sess.framePending
    /\ LET S == sess
           w == IF S.isMouseDown /\ S.doResize THEN RedrawBody(S, World) ELSE World
           S1 == [S EXCEPT !.framePending = S.isMouseDown,
                           !.dirty = IF S.isMouseDown /\ S.doResize THEN FALSE ELSE @]
       IN  /\ sess' = Collect(Observe(S1, w.trace))
           /\ Commit(w, Op("doRedraw", 0))
    /\ UNCHANGED <<tagged, hasContent, overlays, attached, minSize, collapsable, stale>>

\* a frame callback of an earlier closure: its isMouseDown is false, it returns
doRedrawStale ==
    /\ stale > 0
    /\ stale' = stale - 1
    /\ Commit(World, Op("doRedrawStale", 0))
    /\ UNCHANGED <<tagged, hasContent, overlays, attached, minSize, collapsable, sess>>

\* $resizeCont.on("mousemove", ...)
OverlayMouseMove ==
    \E c \in Coords :
        /\ sess.overlay
        /\ LET S == sess
               n == ComputeNewSize(S.startSize, S.startPosition, c, minSize)
               w == trigger(World, "panelResizeUpdate", n)
               S1 == [S EXCEPT !.doResize = TRUE, !.newSize = n, !.dirty = TRUE,
                               !.enlarging = (S.startPosition - c > CollapseThreshold)]
           IN  /\ n <= minSize + MaxExtra
               /\ sess' = Observe(S1, w.trace)
               /\ Commit(w, Op("mousemove", c))
        /\ UNCHANGED <<tagged, hasContent, overlays, attached, minSize, collapsable, stale>>

overlayMouseDown_Always(w) == toggle(w)

\* the overlay's mousedown listener, bound only if collapsable
overlayMouseDown(w) == IF collapsable THEN toggle(w) ELSE w

\* a mousedown on the overlay
OverlayMouseDown ==
    /\ sess.overlay
    /\ LET w == overlayMouseDown(World)
       IN  /\ sess' = Observe(sess, w.trace)
           /\ Commit(w, Op("overlayMouseDown", 0))
    /\ UNCHANGED <<tagged, hasContent, overlays, attached, minSize, collapsable, stale>>

endResize_PayloadNewSize(S, w) ==
    IF S.isMouseDown
    THEN [S |-> [S EXCEPT !.isMouseDown = FALSE, !.timerPending = TRUE],
          w |-> trigger(w, "panelResizeEnd", S.newSize)]
    ELSE [S |-> S, w |-> w]

endResize_KeepsMouseDown(S, w) ==
    IF S.isMouseDown
    THEN [S |-> [S EXCEPT !.timerPending = TRUE],
          w |-> trigger(w, "panelResizeEnd", w.size)]
    ELSE [S |-> S, w |-> w]

endResize_NoGuard(S, w) ==
    [S |-> [S EXCEPT !.isMouseDown = FALSE, !.timerPending = TRUE],
     w |-> trigger(w, "panelResizeEnd", w.size)]

\* endResize(e): the closure variables and the world after it
endResize(S, w) ==
    IF S.isMouseDown
    THEN [S |-> [S EXCEPT !.isMouseDown = FALSE, !.timerPending = TRUE],
          w |-> trigger(w, "panelResizeEnd", w.size)]
    ELSE [S |-> S, w |-> w]

\* $resizeCont.one("mouseup", endResize)
OverlayMouseUp ==
    /\ sess.overlay
    /\ LET S == sess
           r == IF S.mouseupBound
                THEN endResize([S EXCEPT !.mouseupBound = FALSE], World)
                ELSE [S |-> S, w |-> World]
       IN  /\ sess' = Observe(r.S, r.w.trace)
           /\ Commit(r.w, Op("mouseup", 0))
    /\ UNCHANGED <<tagged, hasContent, overlays, attached, minSize, collapsable, stale>>

\* $resizeCont.mouseleave(endResize)
OverlayMouseLeave ==
    /\ sess.overlay
    /\ LET r == endResize(sess, World)
       IN  /\ sess' = Observe(r.S, r.w.trace)
           /\ Commit(r.w, Op("mouseleave", 0))
    /\ UNCHANGED <<tagged, hasContent, overlays, attached, minSize, collapsable, stale>>

graceTimer_KeepOverlay(S) == [S EXCEPT !.timerPending = FALSE]

\* the timer callback: $resizeCont.off("mousemove"), .off("mousedown"), .remove()
graceTimer(S) ==
    [S EXCEPT !.timerPending = FALSE, !.overlay = FALSE, !.mouseupBound = FALSE]

\* the window.setTimeout callback of endResize, 100ms after it
GraceTimer ==
    /\ sess.timerPending
    /\ sess' = Collect(graceTimer(sess))
    /\ overlays' = overlays - (IF sess.overlay /\ ~graceTimer(sess).overlay THEN 1 ELSE 0)
    /\ Commit(World, Op("graceTimer", 0))
    /\ UNCHANGED <<tagged, hasContent, attached, minSize, collapsable, stale>>

Next ==
    \/ MakeResizable
    \/ HtmlReady
    \/ Show
    \/ Hide
    \/ Toggle
    \/ HandleMouseDown
    \/ doRedraw
    \/ doRedrawStale
    \/ OverlayMouseMove
    \/ OverlayMouseDown
    \/ OverlayMouseUp
    \/ OverlayMouseLeave
    \/ GraceTimer

Spec == Init /\ [][Next]_vars

\* a timer set with window.setTimeout does fire
FairSpec == Spec /\ WF_vars(GraceTimer)

----------------------------------------------------------------------------
(* Properties *)

Names(t) == {t[i][1] : i \in 1..Len(t)}

\* C1: every size computed on a mousemove is at least minSize: the newSize
\* the closure holds once a move was recorded, the payload of every
\* panelResizeUpdate, and every size doRedraw applies to the element.
C1_SizeNeverBelowMin ==
    /\ sess.doResize => sess.newSize >= minSize
    /\ \A i \in 1..Len(trace) :
          trace[i][1] = "panelResizeUpdate" => trace[i][2] >= minSize
    /\ lastOp.op = "doRedraw" =>
          \A i \in 1..Len(trace) : trace[i][1] = "setSize" => trace[i][2] >= minSize

\* a move whose raw size fell below the minimum was clamped to it
C1_Witness ==
    /\ lastOp.op = "mousemove"
    /\ LET S == sess
       IN  /\ S.startSize + (S.startPosition - lastOp.c) < minSize
           /\ trace = <<(<<"panelResizeUpdate", minSize>>)>>

\* C2: the mousedown handler records s0 = the event's coordinate and z0 = the
\* element's size if visible, else 0; they never change afterwards, and each
\* mousemove at c computes exactly max(minSize, z0 + (s0 - c)) and reports it,
\* whatever moves came before and whatever sizes the loop has applied.
C2_NewSizeFormula ==
    /\ ComputeNewSize(200, 300, 250, 100) = 250
    /\ ComputeNewSize(200, 300, 450, 100) = 100
    /\ lastOp.op = "handleMouseDown" =>
          /\ sess.startPosition = lastOp.c
          /\ sess.startSize = (IF visible THEN size ELSE 0)
    /\ sess.overlay => sess.startPosition = sess.s0 /\ sess.startSize = sess.z0
    /\ lastOp.op = "mousemove" =>
          /\ sess.newSize = Max(minSize, sess.z0 + (sess.s0 - lastOp.c))
          /\ trace = <<(<<"panelResizeUpdate", sess.newSize>>)>>

\* a move computed from the start values although the loop had already
\* applied another size to the element
C2_Witness ==
    /\ lastOp.op = "mousemove"
    /\ LET S == sess
       IN  /\ visible /\ size # S.z0 /\ S.z0 > 0
           /\ S.newSize > minSize /\ S.newSize # size /\ S.newSize # S.z0

\* C3: a session emits panelResizeEnd exactly once: none while the pointer
\* is down, one from the first mouseup or mouseleave on the overlay, and no
\* more from any later mouseup or mouseleave before the overlay is removed.
C3_ExactlyOneEnd ==
    /\ Count(trace, "panelResizeEnd") <= 1
    /\ "panelResizeEnd" \in Names(trace) => lastOp.op \in {"mouseup", "mouseleave"}
    /\ lastOp.op \in {"mouseup", "mouseleave"} => sess.ends = 1
    /\ sess.ends <= 1
    /\ sess.overlay => (sess.isMouseDown <=> sess.ends = 0)

\* a further mouseleave during the grace delay emitted nothing
C3_Witness ==
    /\ lastOp.op = "mouseleave"
    /\ trace = <<>>
    /\ sess.ends = 1
    /\ ~sess.mouseupBound


\* C4: within a session the notifications come in the order start, updates,
\* end: the handle's mousedown handler emits panelResizeStart first, and a
\* handler of a session that has emitted its panelResizeEnd emits no
\* panelResizeUpdate and no panelResizeStart after it.
C4_StrictOrder ==
    /\ lastOp.op = "handleMouseDown" =>
          Len(trace) > 0 /\ trace[1][1] = "panelResizeStart"
    /\ sess.ends > 0 =>
          \A i \in 1..Len(trace) :
              trace[i][1] \in {"panelResizeUpdate", "panelResizeStart"} =>
                  \E j \in (i + 1)..Len(trace) : trace[j][1] = "panelResizeEnd"

\* C5: the overlay is in the document while the pointer is down and while
\* the grace timer is pending, and once the session has ended the timer
\* removes it.
C5_OverlayRemoved ==
    /\ []((sess.isMouseDown \/ sess.timerPending) => sess.overlay)
    /\ (sess.overlay /\ ~sess.isMouseDown) ~> ~sess.overlay

\* the timer has just removed the overlay of an ended session
C5_Witness ==
    /\ lastOp.op = "graceTimer"
    /\ ~sess.overlay
    /\ ~sess.timerPending

HideEffects == <<(<<"hide">>), (<<"resizeEditor">>), (<<"panelCollapsed">>)>>

ShowEffects == <<(<<"show">>), (<<"resizeEditor">>), (<<"panelExpanded">>)>>

\* C6: on an attached element, toggle does to a visible element exactly what
\* hide does and to a hidden element exactly what show does: the element is
\* hidden (shown), the handle of a collapsable element is moved before the
\* element to offset + size (back into it, position cleared), resizeEditor
\* is called once and panelCollapsed (panelExpanded) is triggered; so toggle
\* flips the visibility and two toggles restore it.
C6_ToggleIsHideOrShow ==
    [][(attached /\ lastOp'.op \in {"toggle", "hide", "show"}) =>
         /\ (visible /\ lastOp'.op \in {"toggle", "hide"}) =>
               /\ visible' = FALSE
               /\ size' = size
               /\ trace' = HideEffects
               /\ resizer' = IF collapsable
                             THEN [parent |-> "before", css |-> <<PanelOffset + size>>]
                             ELSE resizer
         /\ (~visible /\ lastOp'.op \in {"toggle", "show"}) =>
               /\ visible' = TRUE
               /\ size' = size
               /\ trace' = ShowEffects
               /\ resizer' = IF collapsable
                             THEN [parent |-> "element", css |-> <<>>]
                             ELSE resizer
         /\ lastOp'.op = "toggle" => visible' = ~visible]_vars

\* toggle has hidden a visible collapsable element and moved its handle
C6_Witness ==
    /\ lastOp.op = "toggle"
    /\ attached /\ collapsable /\ ~visible
    /\ trace = HideEffects
    /\ resizer = [parent |-> "before", css |-> <<PanelOffset + size>>]

\* C7: show, hide and toggle on an element that was never made resizable
\* change nothing: visibility, size and handle stay, resizeEditor is not
\* called and nothing is triggered.
C7_NoOpWhenNotAttached ==
    [][(~attached /\ lastOp'.op \in {"show", "hide", "toggle"}) =>
         /\ visible' = visible
         /\ size' = size
         /\ resizer' = resizer
         /\ trace' = <<>>
         /\ ~attached']_vars

\* toggle ran on a hidden element that is not resizable and left it hidden
C7_Witness ==
    /\ ~attached
    /\ lastOp.op = "toggle"
    /\ ~visible
    /\ trace = <<>>

\* C8: a mousedown on the overlay flips the visibility of a collapsable
\* element exactly once and changes neither visibility nor size of one that
\* is not collapsable; in both cases it starts no session: the closure and
\* its overlay stay as they were and no panelResizeStart is triggered.
C8_OverlayMouseDownToggles ==
    [][lastOp'.op = "overlayMouseDown" =>
         /\ collapsable =>
               /\ visible' = ~visible
               /\ Count(trace', "show") + Count(trace', "hide") = 1
         /\ ~collapsable =>
               /\ visible' = visible
               /\ size' = size
               /\ trace' = <<>>
         /\ sess' = sess
         /\ stale' = stale
         /\ "panelResizeStart" \notin Names(trace')]_vars

\* the second click of a double click, during the grace delay and with no
\* move recorded, has hidden the collapsable element
C8_Witness ==
    /\ lastOp.op = "overlayMouseDown"
    /\ collapsable
    /\ sess.overlay /\ sess.timerPending /\ ~sess.doResize
    /\ ~visible
    /\ trace = HideEffects

\* C9: a frame of doRedraw hides the element and triggers panelCollapsed
\* exactly once when the pointer is down, a move was recorded, the element
\* is visible and newSize is below 10, and leaves it hidden; any other
\* frame, so every later frame that finds it hidden, hides nothing and
\* triggers no panelCollapsed.
C9_OneCollapsePerCrossing ==
    [][lastOp'.op = "doRedraw" =>
         LET crossing == /\ sess.isMouseDown /\ sess.doResize
                         /\ visible /\ sess.newSize < CollapseThreshold
             n == IF crossing THEN 1 ELSE 0
         IN  /\ Count(trace', "hide") = n
             /\ Count(trace', "panelCollapsed") = n
             /\ crossing => ~visible']_vars

\* a frame has applied a size below 10 and hidden the element
C9_Witness ==
    /\ lastOp.op = "doRedraw"
    /\ sess.isMouseDown /\ sess.newSize < CollapseThreshold
    /\ ~visible /\ size = sess.newSize
    /\ Count(trace, "hide") = 1
    /\ Count(trace, "panelCollapsed") = 1

\* C10: a frame of doRedraw shows the element at most once, and only when
\* the last move was more than 10 toward enlarging (startPosition minus the
\* coordinate exceeds 10); it then triggers one panelExpanded and one
\* panelResizeStart.
C10_ShownOnlyPastThreshold ==
    lastOp.op = "doRedraw" =>
        /\ Count(trace, "show") <= 1
        /\ Count(trace, "show") = 1 =>
              /\ sess.enlarging
              /\ Count(trace, "panelExpanded") = 1
              /\ Count(trace, "panelResizeStart") = 1

\* C11: an element that was made resizable with a size of at least minSize
\* is, in every state, hidden or visible with a size of at least minSize.
C11_VisibleAtLeastMin ==
    attached => (~visible \/ size >= minSize)

\* a frame of a drag has shrunk the visible panel down to exactly minSize
C11_Witness ==
    /\ lastOp.op = "doRedraw"
    /\ attached /\ visible
    /\ minSize = DEFAULT_MIN_SIZE
    /\ sess.startSize > minSize
    /\ size = minSize
    /\ Count(trace, "setSize") = 1

\* C12: a handler triggers panelExpanded only when it takes the element from
\* hidden to visible and panelCollapsed only when it takes it from visible to
\* hidden, so that the two notifications alternate.
C12_ExpandedCollapsedAlternate ==
    [][/\ Count(trace', "panelExpanded") > 0 =>
            /\ Count(trace', "panelExpanded") = 1
            /\ ~visible /\ visible'
       /\ Count(trace', "panelCollapsed") > 0 =>
            /\ Count(trace', "panelCollapsed") = 1
            /\ visible /\ ~visible']_vars

\* what a handler does to the element's size or visibility
Changes == {"setSize", "show", "hide"}

\* C13: in every handler and every frame, each change of the element's size
\* or visibility is followed by a call of EditorManager.resizeEditor.
C13_ChangeThenRelayout ==
    \A i \in 1..Len(trace) :
        trace[i][1] \in Changes =>
            \E j \in (i + 1)..Len(trace) : trace[j][1] = "resizeEditor"

\* a frame has applied a size and nothing else, and called resizeEditor after it
C13_Witness ==
    /\ lastOp.op = "doRedraw"
    /\ Len(trace) = 2
    /\ trace[1] = <<"setSize", size>>
    /\ trace[2] = <<"resizeEditor">>

\* a mouseup or mouseleave has just ended a session that recorded a move,
\* and the element is visible
EndOfDrag ==
    /\ lastOp.op \in {"mouseup", "mouseleave"}
    /\ Count(trace, "panelResizeEnd") = 1
    /\ sess.doResize
    /\ visible

\* C14: when a session that recorded a move ends with the element visible,
\* the payload of panelResizeEnd is the last computed size, the payload of
\* the session's last panelResizeUpdate.
C14_EndCarriesLastComputed ==
    EndOfDrag => trace = << <<"panelResizeEnd", sess.newSize>> >>

\* C14, amended: the payload of panelResizeEnd is the element's size at that
\* moment; it is the last computed size when a frame has run the resize
\* branch since the last move and that size is above the threshold.
C14_EndCarriesElementSize ==
    EndOfDrag =>
        /\ trace = << <<"panelResizeEnd", size>> >>
        /\ (~sess.dirty /\ sess.newSize > CollapseThreshold) => size = sess.newSize

\* the session ends before any frame has applied the last computed size
C14_Witness ==
    /\ EndOfDrag
    /\ sess.dirty
    /\ size # sess.newSize
    /\ trace = << <<"panelResizeEnd", size>> >>

\* C15: a frame callback does work only if a mousemove has come since the
\* previous frame; a frame with no new move changes neither size nor
\* visibility and does not call resizeEditor.
C15_FrameWorksOnlyAfterMove ==
    [][(lastOp'.op = "doRedraw" /\ ~sess.dirty) =>
            /\ trace' = <<>>
            /\ size' = size
            /\ visible' = visible]_vars

\* C16: once a session has ended its redraw loop stops: the frame callback
\* that is still queued changes neither size nor visibility and requests no
\* further frame, no frame is requested before the next mousedown on the
\* handle, and the size changes only in a frame of a session whose mouse is
\* down, so a move of the grace period is never applied.
C16_LoopStopsAfterEnd ==
    [][/\ (lastOp'.op = "doRedraw" /\ ~sess.isMouseDown) =>
            /\ trace' = <<>> /\ size' = size /\ visible' = visible
            /\ ~sess'.framePending
       /\ lastOp'.op = "doRedrawStale" =>
            /\ trace' = <<>> /\ size' = size /\ visible' = visible
            /\ stale' = stale - 1
       /\ (sess'.framePending /\ ~sess.framePending) =>
            lastOp'.op = "handleMouseDown"
       /\ size' # size =>
            lastOp'.op = "doRedraw" /\ sess.isMouseDown]_vars

\* the last frame of an ended session has run during the grace period and
\* left a computed size unapplied
C16_Witness ==
    /\ lastOp.op = "doRedraw"
    /\ sess.ends = 1 /\ sess.overlay /\ sess.timerPending
    /\ ~sess.framePending
    /\ sess.dirty /\ sess.newSize # size
    /\ trace = <<>>

\* C17: whenever a frame of doRedraw applies a size to an element that has a
\* content area, in either branch, it sets the content's size in that frame
\* to that size minus the session's baseSize.
C17_ContentFollowsSize ==
    (lastOp.op = "doRedraw" /\ hasContent /\ Count(trace, "setSize") > 0) =>
        \E i \in 1..Len(trace) :
            trace[i] = <<"setContentSize", size - sess.baseSize>>

\* C18: with the handle out of reach while an overlay is in the document,
\* there is never more than one overlay; a mousedown on the handle starts a
\* session only when the closure before it has cleared isMouseDown and has no
\* overlay and no grace timer left, so at most one closure has isMouseDown
\* set; and an overlay leaves the document only through the grace timer.
C18_OneSessionAtATime ==
    [][/\ overlays' <= 1
       /\ sess'.overlay <=> overlays' = 1
       /\ lastOp'.op = "handleMouseDown" =>
            /\ overlays = 0
            /\ ~sess.isMouseDown /\ ~sess.overlay /\ ~sess.timerPending
       /\ overlays' < overlays => lastOp'.op = "graceTimer"]_vars

\* a second session has started after the grace timer of the first, while a
\* frame callback of the first is still queued
C18_Witness ==
    /\ lastOp.op = "handleMouseDown"
    /\ stale = 1
    /\ overlays = 1
    /\ sess.isMouseDown

\* C19: a mousedown on the overlay of a collapsable element toggles the
\* element only if the session has recorded no mousemove; once doResize is
\* set the mousedown leaves the visibility as it is.
C19_NoToggleAfterDrag ==
    (lastOp.op = "overlayMouseDown" /\ sess.doResize) =>
        Count(trace, "show") + Count(trace, "hide") = 0

\* C20: with a minSize of at least the threshold no frame of doRedraw hides
\* the element; a visible element becomes hidden only by exports.hide, by
\* exports.toggle or by a mousedown on the overlay of a collapsable element.
C20_LoopNeverHidesAboveThreshold ==
    [][minSize >= CollapseThreshold =>
            /\ lastOp'.op = "doRedraw" =>
                    /\ Count(trace', "hide") = 0
                    /\ visible => visible'
            /\ (visible /\ ~visible') =>
                    \/ lastOp'.op \in {"hide", "toggle"}
                    \/ lastOp'.op = "overlayMouseDown" /\ collapsable]_vars

\* a frame has applied the minimum of an autodiscovered panel after a drag
\* that started above it, and the panel is still visible
C20_Witness ==
    /\ minSize = DEFAULT_MIN_SIZE
    /\ lastOp.op = "doRedraw"
    /\ sess.isMouseDown /\ sess.doResize
    /\ sess.z0 > minSize /\ sess.newSize = minSize
    /\ visible /\ size = minSize
    /\ Count(trace, "hide") = 0
    /\ Count(trace, "resizeEditor") = 1

====
